---- MODULE Spec2Model ----
(***************************************************************************)
(* Scalp trading trainer (src/scalp_trainer.py): the candle ticker         *)
(* (candle_generation_loop -> generate_candle -> check_for_breakout) and   *)
(* the trade session commands of TradeScalpTrainer (enter_trade,           *)
(* cancel_trade, exit_trade, toggle_pause, reset_statistics,               *)
(* toggle_debug_mode, exit_application).                                   *)
(*                                                                         *)
(* Prices are integers in fine units: Scale fine units make one cent, so   *)
(* the generator's unrounded current_price lives on the fine grid and      *)
(* round(x, 2) maps it to whole cents.  Time is the reading of             *)
(* time.time() in seconds.  Python's None is the empty sequence and a      *)
(* value v is <<v>>, so that None and 0.0 stay different values that are   *)
(* both falsy.  Volume and the timestamps of candles are not part of this  *)
(* model.  The support/resistance levels are kept with their price, type,  *)
(* strength and creation time; their effect on prices is covered by the    *)
(* nondeterministic draws of generate_candle.                              *)
(*                                                                         *)
(* Spec runs every handler and every tick as one step, SpecRace runs the   *)
(* ticker statement by statement, SpecLevels follows the level set over a  *)
(* lifetime, and SpecLive adds fair scheduling of the ticker thread.       *)
(***************************************************************************)
EXTENDS Integers, Sequences, FiniteSets, TLC

\* ------------------------------------------------------------- bounds
Scale == 2          \* fine price units per cent
PriceSpan == 1      \* ticks keep the price within PriceSpan cents of zero
MaxTicks == 2       \* candles generated by the ticker after construction
MaxTime == 2        \* largest clock reading
MaxTrades == 1      \* cap of total_trades
MaxReactions == 1   \* cap of len(reaction_times)
MaxRaceTicks == 1   \* candles generated by the ticker in SpecRace
MaxLevelTicks == 3  \* candles generated by the ticker in SpecLevels
MaxLiveTicks == 2   \* candles generated by the ticker in SpecLive
LevelSlack == 1     \* clock readings followed past the end of a lifetime

\* -------------------------------------------------- program constants
initial_price == 10000          \* 100.0, in cents
max_candles_display == 50
level_lifetime == 300           \* seconds a level is kept
max_levels == 8
price_history_cap == 100

VARIABLES
    current_price,        \* CandlestickGenerator.current_price (fine units)
    gen_candles_len,      \* len(CandlestickGenerator.candles)
    candles_display,      \* the bounded candle history (rounded, in cents)
    sr_levels,            \* CandlestickGenerator.sr_levels
    price_range_history,  \* CandlestickGenerator.price_range_history
    running, paused, debug_mode,
    breakout_detected, breakout_time,
    trade_entered, trade_entry_time, trade_entry_price,
    reaction_times, average_reaction_time,
    total_breakouts, total_trades, successful_trades, score_wins,
    cumulative_score,
    now,                  \* time.time()
    ticker_pc,            \* position of the candle thread
    last                  \* the handler that ran last and the line it printed

levelVars == <<sr_levels, price_range_history>>
genVars   == <<current_price, gen_candles_len, candles_display, levelVars>>
flagVars  == <<running, paused, debug_mode>>
boVars    == <<breakout_detected, breakout_time>>
tradeVars == <<trade_entered, trade_entry_time, trade_entry_price>>
rtVars    == <<reaction_times, average_reaction_time>>
statVars  == <<total_breakouts, total_trades, successful_trades, score_wins,
               cumulative_score>>
vars == <<genVars, flagVars, boVars, tradeVars, rtVars, statVars, now,
          ticker_pc, last>>

\* ------------------------------------------------------------ helpers
None == <<>>
Some(v) == <<v>>
Truthy(o) == o # None /\ o[1] # 0

Max(a, b) == IF a >= b THEN a ELSE b
Min(a, b) == IF a <= b THEN a ELSE b

RECURSIVE SumSeq(_)
SumSeq(s) == IF s = <<>> THEN 0 ELSE s[1] + SumSeq(Tail(s))

\* round(x, 2): the nearest cent, ties to the even cent
Round2(x) ==
    LET q == x \div Scale
        r == x % Scale
    IN  IF 2 * r < Scale THEN q
        ELSE IF 2 * r > Scale THEN q + 1
        ELSE IF q % 2 = 0 THEN q ELSE q + 1

TradeTypes == {"long", "short", "breakout"}
ExitTypes == {"profit", "loss", "breakeven"}

\* the random draws of one candle, in fine units: <<move, hx, lx>> with move
\* the move of the close (base_move + random_move + sr_influence) and hx, lx
\* the raw extensions of the high and the low (random extension + sr
\* influence, before the clamp)
Draws == { <<0, 0, 0>>,                \* flat candle
           <<0, Scale, -Scale>>,       \* flat body, a wick on both sides
           <<Scale, 0, 0>>,            \* one cent up
           <<-Scale, 0, 0>>,           \* one cent down
           <<1, -1, 1>>,               \* below a cent up, both clamps bite
           <<-1, Scale, 0>> }          \* below a cent down, a wick above

\* ------------------------------------------------- CandlestickGenerator
\* faulty variant: the high and the low are not clamped after the influence
CandleOf_NoClamp(price, move, hx, lx) ==
    LET open_price == price
        close_price == open_price + move
        top == Max(open_price, close_price)
        bottom == Min(open_price, close_price)
    IN  [open |-> Round2(open_price), high |-> Round2(top + hx),
         low |-> Round2(bottom + lx), close |-> Round2(close_price)]

\* faulty variant: the candle opens at its own close
CandleOf_OpensAtClose(price, move, hx, lx) ==
    LET open_price == price + move
        close_price == price + move
        top == Max(open_price, close_price)
        bottom == Min(open_price, close_price)
        high_price == Max(top + hx, top)
        low_price == Min(bottom + lx, bottom)
    IN  [open |-> Round2(open_price), high |-> Round2(high_price),
         low |-> Round2(low_price), close |-> Round2(close_price)]

\* generate_candle: the candle and the price it leaves in current_price
CandleOf(price, move, hx, lx) ==
    LET open_price == price
        close_price == open_price + move
        top == Max(open_price, close_price)
        bottom == Min(open_price, close_price)
        high_price == Max(top + hx, top)
        low_price == Min(bottom + lx, bottom)
    IN  [open |-> Round2(open_price), high |-> Round2(high_price),
         low |-> Round2(low_price), close |-> Round2(close_price)]

\* the 50 candles of construction: from 100.00 down to 0.00 in 41 candles
\* (40 moves of -2.44 and one of -2.40), then flat
InitMove(i) == IF i <= 40 THEN -244 * Scale
               ELSE IF i = 41 THEN -240 * Scale ELSE 0

RECURSIVE PriceAfter(_)
PriceAfter(i) == IF i = 0 THEN initial_price * Scale
                 ELSE PriceAfter(i - 1) + InitMove(i)

InitCandles == [i \in 1..max_candles_display |->
                    CandleOf(PriceAfter(i - 1), InitMove(i), 0, 0)]

\* ------------------------------------------------ support/resistance
\* SupportResistanceLevel (touches, which only the volume uses, left out)
SupportResistanceLevel(price, level_type, strength, t) ==
    [price |-> price, type |-> level_type, strength |-> strength,
     created_time |-> t, active |-> TRUE]

SeqMax(s) == CHOOSE x \in {s[i] : i \in 1..Len(s)} :
                 \A i \in 1..Len(s) : x >= s[i]
SeqMin(s) == CHOOSE x \in {s[i] : i \in 1..Len(s)} :
                 \A i \in 1..Len(s) : x <= s[i]

\* sr_levels.sort(key=lambda x: x.price): a stable sort
InsertByPrice(sorted, level) ==
    LET k == Cardinality({i \in 1..Len(sorted) :
                             sorted[i].price <= level.price})
    IN  SubSeq(sorted, 1, k) \o <<level>> \o SubSeq(sorted, k + 1, Len(sorted))

RECURSIVE SortByPrice(_)
SortByPrice(s) ==
    IF s = <<>> THEN <<>>
    ELSE InsertByPrice(SortByPrice(SubSeq(s, 1, Len(s) - 1)), s[Len(s)])

LevelType(level_price, price) ==
    IF level_price < price THEN "support" ELSE "resistance"

\* the draws of initialize_sr_levels: <<offset from the price, strength>>
SeedDraws == { <<-500 * Scale, 2>>, <<500 * Scale, 5>> }
SeedCounts == 4..6

\* initialize_sr_levels at time t with the draws seeds
initialize_sr_levels(seeds, t) ==
    LET price == initial_price * Scale
    IN  SortByPrice([i \in 1..Len(seeds) |->
            SupportResistanceLevel(price + seeds[i][1],
                                   LevelType(price + seeds[i][1], price),
                                   seeds[i][2], t)])

\* the draws of update_sr_levels: None when random.random() >= 0.1, else
\* <<end of the price range the new level is drawn at, strength>>
NoLevelDraws == {None}
LevelDraws == {None, Some(<<"min", 2>>), Some(<<"max", 4>>)}

\* the levels update_sr_levels keeps at time t
KeptLevels(levels, t) ==
    SelectSeq(levels,
              LAMBDA l : l.active /\ (t - l.created_time) < level_lifetime)

\* faulty variant: a level is added whatever the number of levels kept
update_sr_levels_NoCap(levels, history, price, t, ldraw) ==
    LET kept == KeptLevels(levels, t)
        lo == SeqMin(history)
        hi == SeqMax(history)
    IN  IF ldraw # None /\ hi - lo > 0
        THEN LET level_price == IF ldraw[1][1] = "min" THEN lo ELSE hi
             IN  SortByPrice(Append(kept,
                     SupportResistanceLevel(level_price,
                                            LevelType(level_price, price),
                                            ldraw[1][2], t)))
        ELSE kept

\* update_sr_levels at time t
update_sr_levels(levels, history, price, t, ldraw) ==
    LET kept == KeptLevels(levels, t)
        lo == SeqMin(history)
        hi == SeqMax(history)
    IN  IF ldraw # None /\ Len(kept) < max_levels /\ hi - lo > 0
        THEN LET level_price == IF ldraw[1][1] = "min" THEN lo ELSE hi
             IN  SortByPrice(Append(kept,
                     SupportResistanceLevel(level_price,
                                            LevelType(level_price, price),
                                            ldraw[1][2], t)))
        ELSE kept

\* price_range_history after a candle that closes at close_price
HistoryAfter(history, close_price) ==
    LET appended == Append(history, close_price)
    IN  IF Len(appended) > price_history_cap THEN Tail(appended)
        ELSE appended

\* the levels a reader gets: draw_sr_levels skips the inactive ones
ActiveLevels(levels) == SelectSeq(levels, LAMBDA l : l.active)

\* ------------------------------------------------------------ Init
InitSession ==
    /\ current_price = PriceAfter(max_candles_display)
    /\ gen_candles_len = max_candles_display
    /\ candles_display = InitCandles
    /\ running = TRUE
    /\ paused = FALSE
    /\ debug_mode = TRUE
    /\ breakout_detected = FALSE
    /\ breakout_time = None
    /\ trade_entered = FALSE
    /\ trade_entry_time = None
    /\ trade_entry_price = None
    /\ reaction_times = <<>>
    /\ average_reaction_time = [num |-> 0, den |-> 1]
    /\ total_breakouts = 0
    /\ total_trades = 0
    /\ successful_trades = 0
    /\ score_wins = 0
    /\ cumulative_score = 0
    /\ now = 1
    /\ ticker_pc = "loop"
    /\ last = [op |-> "init", arg |-> "", msg |-> "", pending |-> FALSE,
               held |-> FALSE]

InitHistory ==
    price_range_history =
        <<initial_price * Scale>>
            \o [i \in 1..max_candles_display |-> PriceAfter(i)]

Init ==
    /\ InitSession
    /\ InitHistory
    /\ sr_levels = initialize_sr_levels(
                       [i \in 1..4 |-> IF i % 2 = 1 THEN <<-500 * Scale, 2>>
                                       ELSE <<500 * Scale, 5>>], now)

\* ------------------------------------------------------------ ticker
\* the record kept in last: the handler, its argument, the line it printed
\* and, for enter_trade and cancel_trade, whether a breakout was pending
\* (pending) and a trade open (held) when it was called
Ran(op, arg, msg) ==
    [op |-> op, arg |-> arg, msg |-> msg, pending |-> FALSE, held |-> FALSE]

\* faulty variant: equal highs count as a breakout
HighBreaks_OrEqual(cd) == cd[Len(cd)].high >= cd[Len(cd) - 1].high

\* current_candle['high'] > previous_candle['high']
HighBreaks(cd) == cd[Len(cd)].high > cd[Len(cd) - 1].high

\* faulty variant: a pending breakout does not stop a new detection
BreakoutFires_Repeat(cd) == Len(cd) >= 2 /\ HighBreaks(cd)

\* check_for_breakout on the history cd: does it detect (and print)?
BreakoutFires(cd) ==
    /\ Len(cd) >= 2
    /\ HighBreaks(cd)
    /\ ~breakout_detected

check_for_breakout(cd) ==
    IF BreakoutFires(cd)
    THEN /\ breakout_detected' = TRUE
         /\ breakout_time' = Some(now)
         /\ total_breakouts' = total_breakouts + 1
    ELSE UNCHANGED <<breakout_detected, breakout_time, total_breakouts>>

\* faulty variant: the loop also ends when it finds the application paused
TickerLoop_EndsOnPause ==
    /\ ticker_pc = "loop"
    /\ ticker_pc' = IF ~running \/ paused THEN "done" ELSE "sleep"
    /\ last' = Ran("loop", "", "")
    /\ UNCHANGED <<genVars, flagVars, boVars, tradeVars, rtVars, statVars, now>>

\* head of the while loop: leave when not running, go to sleep when not
\* paused, spin when paused
TickerLoop ==
    /\ ticker_pc = "loop"
    /\ ticker_pc' = IF ~running THEN "done"
                    ELSE IF ~paused THEN "sleep" ELSE "loop"
    /\ last' = Ran("loop", "", "")
    /\ UNCHANGED <<genVars, flagVars, boVars, tradeVars, rtVars, statVars, now>>

\* the rest of the loop body after time.sleep(3): one candle (level
\* maintenance first), the append with eviction, the breakout check
Tick(draws, ldraws, max_ticks) ==
    /\ ticker_pc = "sleep"
    /\ gen_candles_len < max_candles_display + max_ticks
    /\ \E draw \in draws, ldraw \in ldraws :
         LET move == draw[1]
             new_candle == CandleOf(current_price, move, draw[2], draw[3])
             appended == Append(candles_display, new_candle)
             cd == IF Len(appended) > max_candles_display
                   THEN Tail(appended) ELSE appended
         IN  /\ current_price + move >= -PriceSpan * Scale
             /\ current_price + move <= PriceSpan * Scale
             /\ sr_levels' = update_sr_levels(sr_levels, price_range_history,
                                              current_price, now, ldraw)
             /\ price_range_history' =
                    HistoryAfter(price_range_history, current_price + move)
             /\ current_price' = current_price + move
             /\ gen_candles_len' = gen_candles_len + 1
             /\ candles_display' = cd
             /\ check_for_breakout(cd)
             /\ last' = Ran("tick", "",
                            IF BreakoutFires(cd) THEN "breakout" ELSE "")
    /\ ticker_pc' = "loop"
    /\ UNCHANGED <<flagVars, tradeVars, rtVars, total_trades,
                   successful_trades, score_wins, cumulative_score, now>>

TickerWake == Tick(Draws, NoLevelDraws, MaxTicks)

\* the clock advances
TimePasses ==
    /\ now < MaxTime
    /\ now' = now + 1
    /\ last' = Ran("time", "", "")
    /\ UNCHANGED <<genVars, flagVars, boVars, tradeVars, rtVars, statVars,
                   ticker_pc>>

\* ------------------------------------------------------------ commands
\* faulty variant: entry is not guarded by the open trade
EnterGuard_Always == TRUE

\* if not self.trade_entered
EnterGuard == ~trade_entered

\* faulty variant: the reaction time is recorded in debug mode too
RecordsReaction_AnyMode == Truthy(breakout_time)

\* if self.breakout_time and not self.debug_mode
RecordsReaction == Truthy(breakout_time) /\ ~debug_mode

\* faulty variant: the entry is priced at the candle before the newest
EntryClose_Previous == candles_display[Len(candles_display) - 1].close

\* self.candles_display[-1]['close'] at entry
EntryClose == candles_display[Len(candles_display)].close

\* faulty variant: the reset forgets the detection time
ClearBreakout_FlagOnly ==
    /\ breakout_detected' = FALSE
    /\ UNCHANGED breakout_time

\* "Reset breakout for next opportunity", the last two lines of enter_trade
ClearBreakout ==
    /\ breakout_detected' = FALSE
    /\ breakout_time' = None

enter_trade(trade_type) ==
    /\ running
    /\ LET reaction_time == (now - breakout_time[1]) * 1000
           rts == Append(reaction_times, reaction_time)
           ran(msg) == [op |-> "enter", arg |-> trade_type, msg |-> msg,
                        pending |-> breakout_detected,
                        held |-> trade_entered]
       IN  IF EnterGuard
           THEN /\ trade_entered' = TRUE
                /\ trade_entry_time' = Some(now)
                /\ trade_entry_price' =
                       IF candles_display # <<>>
                       THEN Some(EntryClose)
                       ELSE trade_entry_price
                /\ IF RecordsReaction
                   THEN /\ Len(reaction_times) < MaxReactions
                        /\ reaction_times' = rts
                        /\ average_reaction_time' =
                               [num |-> SumSeq(rts), den |-> Len(rts)]
                        /\ last' = ran("entered_reaction")
                   ELSE /\ UNCHANGED rtVars
                        /\ last' = ran("entered_price")
           ELSE /\ UNCHANGED <<tradeVars, rtVars>>
                /\ last' = ran("already_in_trade")
    /\ ClearBreakout
    /\ UNCHANGED <<genVars, flagVars, statVars, now, ticker_pc>>

cancel_trade ==
    /\ running
    /\ trade_entered' = FALSE
    /\ trade_entry_price' = None
    /\ breakout_detected' = FALSE
    /\ last' = [op |-> "cancel", arg |-> "", msg |-> "cancelled",
                pending |-> breakout_detected, held |-> trade_entered]
    /\ UNCHANGED <<genVars, flagVars, breakout_time, trade_entry_time, rtVars,
                   statVars, now, ticker_pc>>

\* if self.trade_entered and self.trade_entry_price and self.candles_display
ExitGuard ==
    trade_entered /\ Truthy(trade_entry_price) /\ candles_display # <<>>

\* faulty variant: the profit tag counts only with a favourable price movement
ProfitableDelta_OnlyWhenUp(exit_type, up) ==
    IF exit_type = "profit" /\ up THEN 1 ELSE 0

\* self.successful_trades += 1 under exit_type == 'profit'
ProfitableDelta(exit_type, up) == IF exit_type = "profit" THEN 1 ELSE 0

\* the change of cumulative_score: by price movement for profit and loss,
\* none for breakeven
ScoreDelta(exit_type, up, down) ==
    IF exit_type = "profit"
    THEN IF up THEN 1 ELSE IF down THEN -1 ELSE 0
    ELSE IF exit_type = "loss"
    THEN IF down THEN -1 ELSE IF up THEN 1 ELSE 0
    ELSE 0

\* faulty variant: a win is counted only under the profit tag
WinsDelta_OnlyProfitTag(exit_type, up) ==
    IF exit_type = "profit" /\ up THEN 1 ELSE 0

\* self.score_wins += 1 beside each cumulative_score += 1
WinsDelta(exit_type, up) ==
    IF exit_type \in {"profit", "loss"} /\ up THEN 1 ELSE 0

\* the body of exit_trade under its guard
ExitAccepted(exit_type) ==
    LET current == candles_display[Len(candles_display)].close
        entry == trade_entry_price[1]
        up == current > entry
        down == current < entry
    IN  /\ total_trades < MaxTrades
        /\ total_trades' = total_trades + 1
        /\ successful_trades' = successful_trades + ProfitableDelta(exit_type, up)
        /\ cumulative_score' = cumulative_score + ScoreDelta(exit_type, up, down)
        /\ score_wins' = score_wins + WinsDelta(exit_type, up)
        /\ trade_entered' = FALSE
        /\ trade_entry_price' = None
        /\ last' = Ran("exit", exit_type, "exited")
        /\ UNCHANGED <<trade_entry_time, total_breakouts>>

\* faulty variant: the trade is counted before the guard is looked at
ExitSkipped_CountsTrade(exit_type) ==
    /\ last' = Ran("exit", exit_type, "")
    /\ total_trades < MaxTrades
    /\ total_trades' = total_trades + 1
    /\ UNCHANGED <<tradeVars, total_breakouts, successful_trades, score_wins,
                   cumulative_score>>

\* exit_trade when its guard fails: nothing is assigned, nothing printed
ExitSkipped(exit_type) ==
    /\ last' = Ran("exit", exit_type, "")
    /\ UNCHANGED <<tradeVars, statVars>>

exit_trade(exit_type) ==
    /\ running
    /\ IF ExitGuard THEN ExitAccepted(exit_type) ELSE ExitSkipped(exit_type)
    /\ UNCHANGED <<genVars, flagVars, boVars, rtVars, now, ticker_pc>>

toggle_pause ==
    /\ running
    /\ paused' = ~paused
    /\ last' = Ran("toggle_pause", "", IF ~paused THEN "paused" ELSE "resumed")
    /\ UNCHANGED <<genVars, running, debug_mode, boVars, tradeVars, rtVars,
                   statVars, now, ticker_pc>>

\* faulty variant: the reset leaves the score
reset_statistics_KeepsScore ==
    /\ running
    /\ total_breakouts' = 0
    /\ total_trades' = 0
    /\ successful_trades' = 0
    /\ score_wins' = 0
    /\ average_reaction_time' = [num |-> 0, den |-> 1]
    /\ reaction_times' = <<>>
    /\ last' = Ran("reset", "", "reset")
    /\ UNCHANGED <<genVars, flagVars, boVars, tradeVars, cumulative_score, now,
                   ticker_pc>>

reset_statistics ==
    /\ running
    /\ total_breakouts' = 0
    /\ total_trades' = 0
    /\ successful_trades' = 0
    /\ score_wins' = 0
    /\ average_reaction_time' = [num |-> 0, den |-> 1]
    /\ cumulative_score' = 0
    /\ reaction_times' = <<>>
    /\ last' = Ran("reset", "", "reset")
    /\ UNCHANGED <<genVars, flagVars, boVars, tradeVars, now, ticker_pc>>

\* faulty variant: leaving or entering debug mode drops the pending breakout
toggle_debug_mode_DropsPending ==
    /\ running
    /\ debug_mode' = ~debug_mode
    /\ breakout_detected' = FALSE
    /\ last' = Ran("toggle_debug", "",
                   IF ~debug_mode THEN "debug_on" ELSE "debug_off")
    /\ UNCHANGED <<genVars, running, paused, breakout_time, tradeVars, rtVars,
                   statVars, now, ticker_pc>>

toggle_debug_mode ==
    /\ running
    /\ debug_mode' = ~debug_mode
    /\ last' = Ran("toggle_debug", "",
                   IF ~debug_mode THEN "debug_on" ELSE "debug_off")
    /\ UNCHANGED <<genVars, running, paused, boVars, tradeVars, rtVars,
                   statVars, now, ticker_pc>>

exit_application ==
    /\ running
    /\ running' = FALSE
    /\ last' = Ran("exit_application", "", "exiting")
    /\ UNCHANGED <<genVars, paused, debug_mode, boVars, tradeVars, rtVars,
                   statVars, now, ticker_pc>>

Next ==
    \/ TickerLoop
    \/ TickerWake
    \/ TimePasses
    \/ \E trade_type \in TradeTypes : enter_trade(trade_type)
    \/ cancel_trade
    \/ \E exit_type \in ExitTypes : exit_trade(exit_type)
    \/ toggle_pause
    \/ reset_statistics
    \/ toggle_debug_mode
    \/ exit_application

Spec == Init /\ [][Next]_vars

\* -----------------------------------------------------------------
\* The ticker thread statement by statement.  candle_generation_loop runs
\* on its own thread, the hotkey callbacks on the keyboard listener's
\* thread, and no lock is taken anywhere: a handler can run between any
\* two statements of the loop body.
\* -----------------------------------------------------------------
\* time.sleep(3) returns, generate_candle, candles_display.append
TickerAppend ==
    /\ ticker_pc = "sleep"
    /\ gen_candles_len < max_candles_display + MaxRaceTicks
    /\ \E draw \in Draws :
         LET move == draw[1]
             new_candle == CandleOf(current_price, move, draw[2], draw[3])
         IN  /\ current_price + move >= -PriceSpan * Scale
             /\ current_price + move <= PriceSpan * Scale
             /\ current_price' = current_price + move
             /\ gen_candles_len' = gen_candles_len + 1
             /\ candles_display' = Append(candles_display, new_candle)
             /\ sr_levels' = update_sr_levels(sr_levels, price_range_history,
                                              current_price, now, None)
             /\ price_range_history' =
                    HistoryAfter(price_range_history, current_price + move)
    /\ ticker_pc' = "appended"
    /\ last' = Ran("tick_append", "", "")
    /\ UNCHANGED <<flagVars, boVars, tradeVars, rtVars, statVars, now>>

\* if len(candles_display) > max_candles_display: pop(0)
TickerEvict ==
    /\ ticker_pc = "appended"
    /\ candles_display' = IF Len(candles_display) > max_candles_display
                          THEN Tail(candles_display) ELSE candles_display
    /\ ticker_pc' = "check"
    /\ last' = Ran("tick_evict", "", "")
    /\ UNCHANGED <<current_price, gen_candles_len, levelVars, flagVars,
                   boVars, tradeVars, rtVars, statVars, now>>

\* check_for_breakout up to breakout_detected = True
TickerCheck ==
    /\ ticker_pc = "check"
    /\ IF BreakoutFires(candles_display)
       THEN /\ breakout_detected' = TRUE
            /\ ticker_pc' = "flagged"
       ELSE /\ UNCHANGED breakout_detected
            /\ ticker_pc' = "loop"
    /\ last' = Ran("detect_flag", "",
                   IF BreakoutFires(candles_display) THEN "breakout" ELSE "")
    /\ UNCHANGED <<genVars, flagVars, breakout_time, tradeVars, rtVars,
                   statVars, now>>

\* breakout_time = time.time()
TickerStamp ==
    /\ ticker_pc = "flagged"
    /\ breakout_time' = Some(now)
    /\ ticker_pc' = "stamped"
    /\ last' = Ran("detect_time", "", "")
    /\ UNCHANGED <<genVars, flagVars, breakout_detected, tradeVars, rtVars,
                   statVars, now>>

\* total_breakouts += 1
TickerCount ==
    /\ ticker_pc = "stamped"
    /\ total_breakouts' = total_breakouts + 1
    /\ ticker_pc' = "loop"
    /\ last' = Ran("detect_count", "", "")
    /\ UNCHANGED <<genVars, flagVars, boVars, tradeVars, rtVars,
                   total_trades, successful_trades, score_wins,
                   cumulative_score, now>>

NextRace ==
    \/ TickerLoop
    \/ TickerAppend
    \/ TickerEvict
    \/ TickerCheck
    \/ TickerStamp
    \/ TickerCount
    \/ TimePasses
    \/ \E trade_type \in TradeTypes : enter_trade(trade_type)
    \/ cancel_trade
    \/ \E exit_type \in ExitTypes : exit_trade(exit_type)
    \/ toggle_pause
    \/ reset_statistics
    \/ toggle_debug_mode
    \/ exit_application

SpecRace == Init /\ [][NextRace]_vars

\* -----------------------------------------------------------------
\* The level set over a lifetime: construction seeds 4 to 6 levels, ticks
\* may add levels, and the clock runs past the end of the lifetime.
\* -----------------------------------------------------------------
InitLevels ==
    /\ InitSession
    /\ InitHistory
    /\ \E n \in SeedCounts : \E seeds \in [1..n -> SeedDraws] :
           sr_levels = initialize_sr_levels(seeds, now)

\* the candle draws followed while the level set is watched
CalmDraws == { <<0, 0, 0>>, <<-Scale, 0, 0>> }

TickerLevels == Tick(CalmDraws, LevelDraws, MaxLevelTicks)

\* the clock readings followed: just after construction and around the end
\* of the lifetime of the levels of construction
Instants == {2} \cup { 1 + level_lifetime + d : d \in -1..LevelSlack }

LevelTimePasses ==
    /\ \E t \in Instants : t > now /\ now' = t
    /\ last' = Ran("time", "", "")
    /\ UNCHANGED <<genVars, flagVars, boVars, tradeVars, rtVars, statVars,
                   ticker_pc>>

NextLevels ==
    \/ TickerLoop
    \/ TickerLevels
    \/ LevelTimePasses
    \/ toggle_pause

SpecLevels == InitLevels /\ [][NextLevels]_vars


\* -----------------------------------------------------------------
\* The ticker under fair scheduling of its thread: the loop head is
\* evaluated again and again, and time.sleep(3) returns.
\* -----------------------------------------------------------------
TickerLive == Tick(CalmDraws, NoLevelDraws, MaxLiveTicks)

NextLive ==
    \/ TickerLoop
    \/ TickerLive
    \/ \E trade_type \in TradeTypes : enter_trade(trade_type)
    \/ cancel_trade
    \/ \E exit_type \in ExitTypes : exit_trade(exit_type)
    \/ toggle_pause
    \/ reset_statistics
    \/ toggle_debug_mode
    \/ exit_application

SpecLive ==
    /\ Init
    /\ [][NextLive]_vars
    /\ WF_vars(TickerLoop)
    /\ WF_vars(TickerLive)


\* =================================================================
\* Properties.  A step is a call of handler h exactly when last'.op = h:
\* every action writes last.
\* =================================================================
LatestClose == candles_display[Len(candles_display)].close

\* C1: in normal mode enter opens a trade only if a breakout is pending at
\* the call; with none pending the call is rejected and the open-trade flag,
\* entry price and entry time are left as they were.  In debug mode enter
\* opens a trade whenever none is open.
C1_NormalEntryNeedsBreakout ==
    [][ /\ (last'.op = "enter" /\ ~debug_mode /\ ~breakout_detected)
            => UNCHANGED tradeVars
        /\ (last'.op = "enter" /\ debug_mode /\ ~trade_entered)
            => trade_entered' ]_vars

\* C2 as stated: an enter called while a trade is open (a second enter with
\* no exit or cancel since the first) leaves the whole session state
\* unchanged, the pending breakout and its detection time included.
C2_SecondEnterChangesNothing ==
    [][ (last'.op = "enter" /\ trade_entered)
            => UNCHANGED <<tradeVars, boVars, statVars, rtVars>> ]_vars

\* C2 amended: an enter called while a trade is open is rejected and leaves
\* the open trade, entry price, entry time, all counters and the
\* reaction-time series unchanged; it clears the pending breakout and its
\* detection time.
C2_SecondEnterRejected ==
    [][ (last'.op = "enter" /\ trade_entered)
            => /\ last'.msg = "already_in_trade"
               /\ UNCHANGED <<tradeVars, statVars, rtVars>>
               /\ breakout_detected' = FALSE
               /\ breakout_time' = None ]_vars

\* a second enter was rejected while a breakout, detected by a tick after
\* the first enter, was pending
C2_Witness ==
    /\ last.op = "enter" /\ last.msg = "already_in_trade" /\ last.pending
    /\ trade_entered /\ ~breakout_detected /\ breakout_time = None

\* C3: score sign law.  exit(result) on a trade entered at price P with the
\* latest close P2: for profit and loss the score changes by +1 (and wins
\* by +1) if P2 > P, by -1 if P2 < P, by 0 if P2 = P; for breakeven score
\* and wins are unchanged.
C3_ScoreSignLaw ==
    [][ (last'.op = "exit" /\ trade_entered /\ trade_entry_price # None)
            => LET P == trade_entry_price[1]
                   P2 == LatestClose
               IN  IF last'.arg = "breakeven"
                   THEN /\ cumulative_score' = cumulative_score
                        /\ score_wins' = score_wins
                   ELSE IF P2 > P
                   THEN /\ cumulative_score' = cumulative_score + 1
                        /\ score_wins' = score_wins + 1
                   ELSE IF P2 < P
                   THEN /\ cumulative_score' = cumulative_score - 1
                        /\ score_wins' = score_wins
                   ELSE /\ cumulative_score' = cumulative_score
                        /\ score_wins' = score_wins ]_vars

\* C4 as stated: exit(result) increments the profitable counter exactly when
\* result = profit and the latest close is above the entry price.
C4_ProfitableNeedsFavourableMove ==
    [][ last'.op = "exit"
            => successful_trades' - successful_trades =
                   IF /\ last'.arg = "profit"
                      /\ trade_entered /\ trade_entry_price # None
                      /\ LatestClose > trade_entry_price[1]
                   THEN 1 ELSE 0 ]_vars

\* C4 amended: exit(result) increments the profitable counter exactly when
\* result = profit and the exit is counted in trades, whatever the price
\* movement; loss and breakeven exits leave it unchanged.
C4_ProfitableCountsProfitTag ==
    [][ last'.op = "exit"
            => successful_trades' - successful_trades =
                   IF /\ last'.arg = "profit"
                      /\ total_trades' = total_trades + 1
                   THEN 1 ELSE 0 ]_vars

\* the first counted exit was tagged profit, scored -1 (the close was below
\* the entry price) and still counts as profitable
C4_Witness ==
    /\ last.op = "exit" /\ last.arg = "profit" /\ last.msg = "exited"
    /\ total_trades = 1 /\ successful_trades = 1
    /\ cumulative_score = -1 /\ score_wins = 0

\* C5: whenever a trade is open, exit(result) increments trades by exactly 1
\* and ends the trade (no open trade, entry price cleared), for every entry
\* price and latest close, zero included.
C5_ExitEndsOpenTrade ==
    [][ (last'.op = "exit" /\ trade_entered)
            => /\ total_trades' = total_trades + 1
               /\ ~trade_entered'
               /\ trade_entry_price' = None ]_vars

\* C6: exit(result) with no trade open changes nothing of the session:
\* counters, reaction times, pending breakout, mode, paused, trade fields.
C6_ExitWithoutTradeIsNoOp ==
    [][ (last'.op = "exit" /\ ~trade_entered)
            => UNCHANGED <<statVars, rtVars, boVars, flagVars, tradeVars,
                           genVars>> ]_vars

\* exit was called with no trade open
C6_Witness ==
    /\ last.op = "exit" /\ last.msg = ""
    /\ ~trade_entered /\ trade_entry_price = None

\* C7: single pending breakout.  A tick that arrives while a breakout is
\* pending leaves the breakouts counter, the pending flag and the detection
\* time unchanged, qualifying candle or not; the counter grows only from a
\* state with no breakout pending.
C7_SinglePendingBreakout ==
    [][ /\ (last'.op = "tick" /\ breakout_detected)
            => UNCHANGED <<total_breakouts, breakout_detected, breakout_time>>
        /\ (total_breakouts' > total_breakouts) => ~breakout_detected ]_vars

\* a qualifying candle has arrived while a breakout was pending
C7_Witness ==
    /\ last.op = "tick" /\ last.msg = ""
    /\ breakout_detected
    /\ candles_display[Len(candles_display)].high >
           candles_display[Len(candles_display) - 1].high

\* C8: a tick with no breakout pending sets the pending flag, records
\* detected_at = now and increments breakouts by 1 if and only if the newest
\* high is strictly above the preceding high, trade open or not; the trade
\* fields, the other counters and the reaction times are unchanged.
C8_BreakoutDetection ==
    [][ (last'.op = "tick" /\ ~breakout_detected)
            => LET cd == candles_display'
                   qualifies == cd[Len(cd)].high > cd[Len(cd) - 1].high
               IN  /\ qualifies => /\ breakout_detected'
                                   /\ breakout_time' = Some(now)
                                   /\ total_breakouts' = total_breakouts + 1
                   /\ ~qualifies => UNCHANGED <<breakout_detected,
                                                breakout_time, total_breakouts>>
                   /\ UNCHANGED <<tradeVars, rtVars, total_trades,
                                  successful_trades, score_wins,
                                  cumulative_score>> ]_vars

\* a breakout was detected by a tick while a trade was open
C8_Witness ==
    /\ last.op = "tick" /\ last.msg = "breakout"
    /\ trade_entered /\ breakout_detected /\ breakout_time = Some(now)
    /\ total_breakouts >= 1

\* C9: enter appends a reaction time only when a breakout is pending at the
\* call and the mode is normal, and the value is entered_at minus the
\* pending breakout's detected_at (in ms); an enter with no breakout pending
\* appends nothing.
C9_ReactionOnlyWhenPending ==
    [][ last'.op = "enter"
            => /\ ~breakout_detected => reaction_times' = reaction_times
               /\ reaction_times' # reaction_times
                    => /\ breakout_detected /\ ~debug_mode
                       /\ trade_entry_time' = Some(now)
                       /\ reaction_times' =
                              Append(reaction_times,
                                     (now - breakout_time[1]) * 1000) ]_vars

\* C10: in debug mode no enter changes the reaction-time series or the mean;
\* in normal mode an enter that opens a trade while a breakout is pending
\* appends exactly one reaction time.
C10_ReactionOnlyInNormalMode ==
    [][ last'.op = "enter"
            => /\ debug_mode => UNCHANGED rtVars
               /\ (~debug_mode /\ ~trade_entered /\ breakout_detected)
                    => /\ Len(reaction_times') = Len(reaction_times) + 1
                       /\ SubSeq(reaction_times', 1, Len(reaction_times))
                              = reaction_times
                       /\ average_reaction_time' =
                              [num |-> SumSeq(reaction_times'),
                               den |-> Len(reaction_times')] ]_vars

\* a debug-mode enter was called with a breakout pending and recorded
\* nothing, after an earlier normal-mode enter had recorded one reaction time
C10_Witness ==
    /\ last.op = "enter" /\ last.pending /\ last.msg = "entered_price"
    /\ debug_mode /\ trade_entered
    /\ Len(reaction_times) = 1

\* C11: every enter call, accepted or rejected, in either mode, leaves no
\* breakout pending: the flag and the detection time are both cleared.
C11_EnterClearsBreakout ==
    [][ last'.op = "enter"
            => ~breakout_detected' /\ breakout_time' = None ]_vars

\* an enter that opened a trade was called with a breakout pending
C11_Witness ==
    /\ last.op = "enter" /\ last.pending /\ ~last.held
    /\ trade_entered /\ ~breakout_detected /\ breakout_time = None

\* C12: cancel from any state ends with no open trade, no entry price and
\* no pending breakout (flag down and detection time cleared), and leaves
\* the counters, the reaction times, the mode and paused unchanged.
C12_CancelClearsTradeAndPending ==
    [][ last'.op = "cancel"
            => /\ ~trade_entered'
               /\ trade_entry_price' = None
               /\ ~breakout_detected' /\ breakout_time' = None
               /\ UNCHANGED <<statVars, rtVars, flagVars>> ]_vars

\* C13: reset_statistics zeroes breakouts, trades, profitable, wins, score
\* and the mean reaction time, empties the reaction times, and leaves the
\* open trade, its entry price, the pending breakout, the mode and paused
\* unchanged.
C13_ResetZeroesStatistics ==
    [][ last'.op = "reset"
            => /\ total_breakouts' = 0 /\ total_trades' = 0
               /\ successful_trades' = 0 /\ score_wins' = 0
               /\ cumulative_score' = 0
               /\ average_reaction_time' = [num |-> 0, den |-> 1]
               /\ reaction_times' = <<>>
               /\ UNCHANGED <<tradeVars, boVars, flagVars>> ]_vars

\* a reset ran with a trade open and a breakout pending (so breakouts was
\* not zero before it)
C13_Witness ==
    /\ last.op = "reset"
    /\ trade_entered /\ breakout_detected /\ total_breakouts = 0

\* C14: while paused is true the ticker appends no candle, does not advance
\* the generator and runs no breakout check, also when the pause arrives
\* during the ticker's interval wait.
C14_PausedTickerIdle ==
    [][ (paused /\ last'.op \in {"loop", "tick"})
            => UNCHANGED <<genVars, total_breakouts, breakout_detected,
                           breakout_time>> ]_vars

\* C15: the ticker's breakout detection and the user commands never
\* interleave step by step: no command runs between the steps of a breakout
\* detection, where the pending flag is set and the detection time or the
\* breakouts counter is not yet written.
Commands == {"enter", "cancel", "exit", "reset", "toggle_pause",
             "toggle_debug"}

C15_DetectionNotInterleaved ==
    [][ last'.op \in Commands
            => ticker_pc \notin {"flagged", "stamped"} ]_vars

\* C16: the candle history is a bounded FIFO of capacity 50: a reader (here
\* enter and exit, which read the newest candle) never finds more than 50
\* candles in it.
C16_ReadersSeeAtMostCapacity ==
    [][ last'.op \in {"enter", "exit"}
            => Len(candles_display) <= max_candles_display ]_vars

\* C17: every candle of the history has high >= max(open, close) and
\* low <= min(open, close), after the influence on high and low and after
\* rounding.
C17_OHLC ==
    \A i \in 1..Len(candles_display) :
        LET c == candles_display[i]
        IN  /\ c.high >= c.open /\ c.high >= c.close
            /\ c.low <= c.open /\ c.low <= c.close

\* the ticker has produced a candle with a body and a wick on both sides
C17_Witness ==
    LET c == candles_display[Len(candles_display)]
    IN  /\ last.op = "tick"
        /\ gen_candles_len > max_candles_display
        /\ c.high > c.open /\ c.high > c.close
        /\ c.low < c.open /\ c.low < c.close

\* C18: a level created at time T is in the level set a reader gets whenever
\* it is read before T + 300 and is absent from it whenever it is read after
\* T + 300, whatever ticks or pauses occurred in between.
C18_LevelAging ==
    [][ /\ \A i \in 1..Len(sr_levels) :
              (sr_levels[i].active
                  /\ now' < sr_levels[i].created_time + level_lifetime)
              => \E j \in 1..Len(ActiveLevels(sr_levels')) :
                     ActiveLevels(sr_levels')[j] = sr_levels[i]
        /\ \A j \in 1..Len(ActiveLevels(sr_levels')) :
              now' <= ActiveLevels(sr_levels')[j].created_time
                          + level_lifetime ]_vars

\* C19: an enter that opens a trade sets the entry price to the close of the
\* newest candle at the call; an exit that is counted scores (for profit and
\* loss) by the close of the newest candle at the exit against that entry
\* price.
C19_PricedAtLatestClose ==
    [][ /\ (last'.op = "enter" /\ ~trade_entered)
            => trade_entry_price' =
                   Some(candles_display[Len(candles_display)].close)
        /\ (/\ last'.op = "exit" /\ last'.arg # "breakeven"
            /\ total_trades' = total_trades + 1)
            => LET now_close == candles_display[Len(candles_display)].close
                   entry == trade_entry_price[1]
               IN  cumulative_score' - cumulative_score =
                       IF now_close > entry THEN 1
                       ELSE IF now_close < entry THEN -1 ELSE 0 ]_vars

\* a trade entered at one close was exited with +1 at a later, higher close
C19_Witness ==
    /\ last.op = "exit" /\ last.msg = "exited" /\ last.arg = "profit"
    /\ total_trades = 1 /\ cumulative_score = 1 /\ score_wins = 1

\* C20: toggle_debug_mode flips debug_mode and changes nothing else, so two
\* toggles in a row restore the state.
C20_ToggleDebugOnlyFlipsMode ==
    [][ last'.op = "toggle_debug"
            => /\ debug_mode' = ~debug_mode
               /\ UNCHANGED <<genVars, running, paused, boVars, tradeVars,
                              rtVars, statVars, now, ticker_pc>> ]_vars

\* the mode was switched to normal with a trade open and a breakout pending
C20_Witness ==
    /\ last.op = "toggle_debug" /\ ~debug_mode
    /\ trade_entered /\ breakout_detected /\ breakout_time # None

\* C21: under fair scheduling of the ticker thread, whenever the
\* application is running and not paused the ticker eventually appends a new
\* candle and runs the breakout check, unless the application is paused or
\* stopped first; this covers the time after a pause is lifted.
C21_TickerLiveness ==
    \A n \in max_candles_display .. (max_candles_display + MaxLiveTicks - 1) :
        (running /\ ~paused /\ gen_candles_len = n)
            ~> (gen_candles_len > n \/ paused \/ ~running)

\* the ticker has appended a candle while the application runs unpaused
C21_Witness ==
    /\ last.op = "tick" /\ running /\ ~paused
    /\ gen_candles_len > max_candles_display
    /\ Len(candles_display) = max_candles_display

\* C22: in every state reachable by ticks and commands the pending flag is
\* set exactly when a detection time is recorded.
C22_PendingIffDetectionTime ==
    breakout_detected <=> breakout_time # None

\* C23: the level maintenance of a tick keeps exactly the levels that are
\* active and not older than the lifetime of 300 (a level aged exactly 300
\* is kept), and then adds at most one new level.
C23_TickKeepsLevelsUpToLifetime ==
    [][ last'.op = "tick"
            => LET expected ==
                       SelectSeq(sr_levels,
                                 LAMBDA l : /\ l.active
                                            /\ now - l.created_time
                                                   <= level_lifetime)
               IN  \/ sr_levels' = expected
                   \/ \E k \in 1..Len(sr_levels') :
                          SubSeq(sr_levels', 1, k - 1)
                              \o SubSeq(sr_levels', k + 1, Len(sr_levels'))
                          = expected ]_vars

\* C24: the level set never holds more than 8 levels and is sorted by price
\* ascending after initialization and after every tick; initialization
\* seeds 4 to 6 levels, and a tick adds at most one level and only when
\* fewer than 8 remain after expiry.
C24_LevelsCappedAndSorted ==
    [][ /\ Len(sr_levels) <= max_levels /\ Len(sr_levels') <= max_levels
        /\ \A i \in 1..(Len(sr_levels') - 1) :
               sr_levels'[i].price <= sr_levels'[i + 1].price
        /\ \A i \in 1..(Len(sr_levels) - 1) :
               sr_levels[i].price <= sr_levels[i + 1].price
        /\ last.op = "init" => Len(sr_levels) \in 4..6
        /\ last'.op = "tick"
               => LET kept == KeptLevels(sr_levels, now)
                  IN  /\ Len(sr_levels') <= Len(kept) + 1
                      /\ Len(kept) >= max_levels => sr_levels' = kept ]_vars

\* the third tick has run on a level set that already held 8 levels, not all
\* of them seeded at construction
C24_Witness ==
    /\ last.op = "tick"
    /\ gen_candles_len = max_candles_display + 3
    /\ Len(sr_levels) = max_levels
    /\ \E i \in 1..Len(sr_levels) : sr_levels[i].created_time > 1

\* C25: a trade is open if and only if an entry price is recorded: enter
\* sets both, exit and cancel clear both, and no other operation (tick,
\* reset_statistics, toggles) changes either.
C25_TradeOpenIffEntryPrice ==
    [][ /\ trade_entered' <=> trade_entry_price' # None
        /\ last'.op = "enter"
               => trade_entered' /\ trade_entry_price' # None
        /\ last'.op \in {"exit", "cancel"}
               => ~trade_entered' /\ trade_entry_price' = None
        /\ last'.op \in {"tick", "loop", "time", "reset", "toggle_pause",
                         "toggle_debug", "exit_application"}
               => UNCHANGED <<trade_entered, trade_entry_price>> ]_vars

\* C26: after any sequence of complete operations wins <= trades,
\* profitable <= trades and -trades <= score <= wins, also when
\* reset_statistics ran while the trade was open.
C26_CounterConsistency ==
    /\ score_wins <= total_trades
    /\ successful_trades <= total_trades
    /\ -total_trades <= cumulative_score
    /\ cumulative_score <= score_wins

\* an exit scored -1 after a reset that ran while the trade was open: the
\* breakout of a tick after the enter is still stamped and no longer counted
C26_Witness ==
    /\ last.op = "exit" /\ last.msg = "exited"
    /\ total_trades = 1 /\ cumulative_score = -1 /\ score_wins = 0
    /\ breakout_time # None /\ total_breakouts = 0

\* C27: for every two adjacent candles of the history the later candle's
\* open equals the earlier candle's close, across the 50 candles of
\* construction and across eviction.
C27_CandleContinuity ==
    \A i \in 1..(Len(candles_display) - 1) :
        candles_display[i + 1].open = candles_display[i].close

\* two ticks with a move each have run, the first candle of construction is
\* evicted, and the newest candle opens where the one before it closed
C27_Witness ==
    LET n == Len(candles_display)
    IN  /\ last.op = "tick"
        /\ gen_candles_len = max_candles_display + 2
        /\ n = max_candles_display
        /\ candles_display[n].open # candles_display[n].close
        /\ candles_display[n - 1].open # candles_display[n - 1].close
        /\ candles_display[n].open = candles_display[n - 1].close

====
